---- MODULE Spec2Model ----
(***************************************************************************)
(* Verification model of the SMS marketing backend's A/B test engine       *)
(* (app/services/ab_testing_service.py, app/routers/ab_testing.py), its    *)
(* delivery reconciliation (app/routers/webhooks.py, process_campaign_     *)
(* messages) and its bulk sender (SMSService.send_bulk_sms).               *)
(*                                                                         *)
(* The specifications of the module:                                       *)
(*   Spec          one A/B test row, its variants and recipient rows,      *)
(*                 driven by create / start / PUT requests;                *)
(*   SpecDelivery  one Campaign row and the messages table, driven by      *)
(*                 send, the campaign task and the provider webhooks;      *)
(*   SpecBulk      one invocation of send_bulk_sms, batch by batch;        *)
(*   SpecGather    one invocation of send_bulk_sms, call by call;          *)
(*   SpecAnalysis  metric updates and analyses of one A/B test;            *)
(*   SpecCounters  the delivered counters of one A/B test;                 *)
(*   SpecTenant    analysis requests of the owner and of another user.     *)
(***************************************************************************)
EXTENDS Integers, Sequences, FiniteSets, TLC

\* ------------------------------------------------------------------------
\* Bounds of the model
\* ------------------------------------------------------------------------
\* Largest number of contacts the owner has.
MaxContacts == 2
\* traffic_split is the rational num / SplitDen.
SplitDen == 4
\* Largest number of rows in the messages table.
MaxMessages == 3
\* Longest list handed to send_bulk_sms.
MaxBulk == 11
\* Largest small value of a conversion counter and of a started list.
MaxCount == 2
\* Largest number of stored analysis results.
MaxResults == 2

\* ------------------------------------------------------------------------
\* A/B test: values
\* ------------------------------------------------------------------------
\* TestStatus (models/ab_testing.py)
TestStatus == {"draft", "running", "completed", "paused", "cancelled"}

\* Numerators of the traffic_split values requests carry: 0, 1/4, 1/2 and
\* 3/2 when SplitDen = 4.  The schema types the field as a bare float.
SplitNums == {0, 1, 2, SplitDen + 2}

\* minimum_sample_size values requests carry.
MinSizes == {1, 2}

\* The variants lists create requests carry (variant_name of each entry).
VariantLists == {<<"A", "B">>, <<"A">>, <<"B", "A", "B">>}

\* Two HTTP requests to POST /campaigns/{id}/start, each served once; they
\* may follow one another or overlap.
Requests == {"r1", "r2"}

NoRow == [absent |-> TRUE]
NoSession == [open |-> FALSE]

\* The fields of ABTestCampaignUpdate the model follows.
UpdateFields == {"status", "traffic_split"}

\* The PUT bodies requests carry: one field set per request (a body setting
\* both has the effect of the two single-field bodies in sequence).  A field
\* outside `fields` is unset and its value here is not read.
UpdateBodies ==
    {[fields |-> {"status"}, status |-> st, traffic_split |-> 0] :
        st \in TestStatus}
    \cup {[fields |-> {"traffic_split"}, status |-> "draft",
           traffic_split |-> num] : num \in SplitNums}

VARIABLES
    contacts,      \* ids of the owner's Contact rows
    campaign,      \* the committed ABTestCampaign row, or NoRow
    variants,      \* committed ABTestVariant rows of the campaign, in id order
    recipients,    \* committed ABTestRecipient rows: contact -> variant -> count
    pc,            \* position of each start request in start_ab_test
    sess,          \* each start request's SQLAlchemy session (uncommitted view)
    resp,          \* the last HTTP response a start request was given
    d_campaign,    \* the committed Campaign row, or NoRow
    messages,      \* the committed Message rows, in id order
    task,          \* position of the campaign task in process_campaign_messages
    webhook_log,   \* the last webhook request served and the run it ends
    provider_accepted, \* whether the provider took every message of the last task run
    bulk,          \* one call of send_bulk_sms: input, position, results
    ab_test,       \* counter and analysis columns of the ABTestCampaign row
    ab_results,    \* the ABTestResult rows of the test, in id order
    analysis,      \* the reply of the last analysis request
    requester,     \* the user the last analysis request came from
    calls          \* one call of send_bulk_sms: the provider call of each message

abvars == <<contacts, campaign, variants, recipients, pc, sess, resp>>

dvars == <<d_campaign, messages, task, webhook_log, provider_accepted>>

avars == <<ab_test, ab_results, analysis>>

\* The state only the fine-grained specifications follow.
xvars == <<requester, calls>>

vars == <<abvars, dvars, bulk, avars, xvars>>

\* ------------------------------------------------------------------------
\* A/B test: helpers
\* ------------------------------------------------------------------------
Min(a, b) == IF a < b THEN a ELSE b
Max(a, b) == IF a > b THEN a ELSE b

\* int(len(contacts) * campaign.traffic_split): Python int() truncates
\* toward zero.
split_point(n, num) ==
    IF n * num >= 0 THEN (n * num) \div SplitDen
    ELSE 0 - ((0 - n * num) \div SplitDen)

\* len(contacts[:split_point]) for a list of n contacts: Python slicing
\* clamps a bound past the end and counts a negative bound from the end.
variant_a_len(n, num) ==
    LET k == split_point(n, num)
    IN  IF k >= 0 THEN Min(k, n) ELSE Max(n + k, 0)

\* next((v for v in variants if v.variant_name == name), None): index of the
\* first variant row with that name, 0 for None.
find_variant(vs, name) ==
    IF \E i \in 1..Len(vs) : vs[i].variant_name = name
    THEN CHOOSE i \in 1..Len(vs) :
            /\ vs[i].variant_name = name
            /\ \A j \in 1..(i - 1) : vs[j].variant_name # name
    ELSE 0

\* The router's reply: a service result without "success" raises
\* HTTPException(400) inside the router's own try block, whose
\* `except Exception` turns it into a 500 carrying the service's error text.
start_response(result) ==
    IF result = "started"
    THEN [code |-> 200, result |-> result]
    ELSE [code |-> 500, result |-> result]

NoResponse == [code |-> 0, result |-> "none"]

\* ------------------------------------------------------------------------
\* A/B test: initial state
\* ------------------------------------------------------------------------
InitAB ==
    /\ contacts = {}
    /\ campaign = NoRow
    /\ variants = <<>>
    /\ recipients = [c \in 1..MaxContacts |-> [A |-> 0, B |-> 0]]
    /\ pc = [r \in Requests |-> "idle"]
    /\ sess = [r \in Requests |-> NoSession]
    /\ resp = NoResponse
\* ------------------------------------------------------------------------
\* A/B test: operations
\* ------------------------------------------------------------------------
\* POST /contacts: the owner gains a contact (ids are handed out in order).
create_contact ==
    /\ Cardinality(contacts) < MaxContacts
    /\ contacts' = contacts \cup {Cardinality(contacts) + 1}
    /\ UNCHANGED <<campaign, variants, recipients, pc, sess, resp>>

\* ABTestingService.create_ab_test: the row is built from the request as it
\* is, committed in draft, then one variant row per entry of the list.
create_ab_test(num, min, vlist) ==
    /\ campaign = NoRow
    /\ campaign' = [status |-> "draft",
                    traffic_split |-> num,
                    minimum_sample_size |-> min,
                    started_at |-> FALSE,
                    variant_a_recipients |-> 0,
                    variant_b_recipients |-> 0]
    /\ variants' = [i \in 1..Len(vlist) |->
                        [variant_name |-> vlist[i], recipients_count |-> 0]]
    /\ UNCHANGED <<contacts, recipients, pc, sess, resp>>

\* PUT /campaigns/{id}: every field the body sets (exclude_unset) is copied
\* onto the row and committed; nothing is validated.
update_ab_test_campaign(body) ==
    /\ campaign # NoRow
    /\ campaign' = [campaign EXCEPT
            !.status = IF "status" \in body.fields THEN body.status ELSE @,
            !.traffic_split =
                IF "traffic_split" \in body.fields THEN body.traffic_split ELSE @]
    /\ UNCHANGED <<contacts, variants, recipients, pc, sess, resp>>

\* A request ends: the reply goes out and its session is closed, dropping
\* whatever the session changed and did not commit.
finish(r, result) ==
    /\ resp' = start_response(result)
    /\ pc' = [pc EXCEPT ![r] = "done"]
    /\ sess' = [sess EXCEPT ![r] = NoSession]

\* start_ab_test_load with the draft test loosened to "draft or paused".
start_ab_test_load_lenient(r) ==
    /\ pc[r] = "idle"
    /\ IF campaign = NoRow
       THEN /\ finish(r, "not_found")
            /\ UNCHANGED <<contacts, campaign, variants, recipients>>
       ELSE IF campaign.status \notin {"draft", "paused"}
       THEN /\ finish(r, "not_draft")
            /\ UNCHANGED <<contacts, campaign, variants, recipients>>
       ELSE /\ sess' = [sess EXCEPT ![r] =
                    [open |-> TRUE,
                     status |-> "running",
                     started_at |-> TRUE,
                     traffic_split |-> campaign.traffic_split,
                     minimum_sample_size |-> campaign.minimum_sample_size,
                     contacts |-> {}]]
            /\ pc' = [pc EXCEPT ![r] = "contacts"]
            /\ UNCHANGED <<contacts, campaign, variants, recipients, resp>>

\* start_ab_test, lines 64-77: load the campaign, reject what is missing or
\* not in draft, then set status and started_at on the loaded object (in the
\* session only).
start_ab_test_load(r) ==
    /\ pc[r] = "idle"
    /\ IF campaign = NoRow
       THEN /\ finish(r, "not_found")
            /\ UNCHANGED <<contacts, campaign, variants, recipients>>
       ELSE IF campaign.status # "draft"
       THEN /\ finish(r, "not_draft")
            /\ UNCHANGED <<contacts, campaign, variants, recipients>>
       ELSE /\ sess' = [sess EXCEPT ![r] =
                    [open |-> TRUE,
                     status |-> "running",
                     started_at |-> TRUE,
                     traffic_split |-> campaign.traffic_split,
                     minimum_sample_size |-> campaign.minimum_sample_size,
                     contacts |-> {}]]
            /\ pc' = [pc EXCEPT ![r] = "contacts"]
            /\ UNCHANGED <<contacts, campaign, variants, recipients, resp>>

\* start_ab_test_contacts with the session committed before the size check
\* returns.
start_ab_test_contacts_committing(r) ==
    /\ pc[r] = "contacts"
    /\ IF Cardinality(contacts) < sess[r].minimum_sample_size
       THEN /\ finish(r, "not_enough")
            /\ campaign' = [campaign EXCEPT !.status = sess[r].status,
                                            !.started_at = sess[r].started_at]
       ELSE /\ sess' = [sess EXCEPT ![r].contacts = contacts]
            /\ pc' = [pc EXCEPT ![r] = "commit"]
            /\ UNCHANGED <<resp, campaign>>
    /\ UNCHANGED <<contacts, variants, recipients>>

\* start_ab_test, lines 79-85: query the owner's contacts and return the
\* "Not enough contacts" error, without commit, when they are too few.
start_ab_test_contacts(r) ==
    /\ pc[r] = "contacts"
    /\ IF Cardinality(contacts) < sess[r].minimum_sample_size
       THEN finish(r, "not_enough")
       ELSE /\ sess' = [sess EXCEPT ![r].contacts = contacts]
            /\ pc' = [pc EXCEPT ![r] = "commit"]
            /\ UNCHANGED resp
    /\ UNCHANGED <<contacts, campaign, variants, recipients>>

\* The rows one commit of start_ab_test writes (lines 106-131), for the
\* variant A contacts a the shuffle put first.
start_ab_test_write(r, a) ==
    LET b == sess[r].contacts \ a
        ia == find_variant(variants, "A")
        ib == find_variant(variants, "B")
    IN  /\ recipients' = [c \in 1..MaxContacts |->
                IF c \in a THEN [recipients[c] EXCEPT !.A = @ + 1]
                ELSE IF c \in b THEN [recipients[c] EXCEPT !.B = @ + 1]
                ELSE recipients[c]]
        /\ variants' = [i \in 1..Len(variants) |->
                IF i = ia THEN [variants[i] EXCEPT !.recipients_count = Cardinality(a)]
                ELSE IF i = ib THEN [variants[i] EXCEPT !.recipients_count = Cardinality(b)]
                ELSE variants[i]]
        /\ campaign' = [campaign EXCEPT
                !.status = sess[r].status,
                !.started_at = sess[r].started_at,
                !.variant_a_recipients =
                    Cardinality(a),
                !.variant_b_recipients =
                    Cardinality(b)]

\* start_ab_test, lines 87-133: shuffle, cut at split_point, look the two
\* variants up, add one recipient row per contact, store the counts, commit.
start_ab_test_commit(r) ==
    /\ pc[r] = "commit"
    /\ IF find_variant(variants, "A") = 0 \/ find_variant(variants, "B") = 0
       THEN /\ finish(r, "no_variants")
            /\ UNCHANGED <<contacts, campaign, variants, recipients>>
       ELSE \E a \in SUBSET sess[r].contacts :
            /\ Cardinality(a) = variant_a_len(Cardinality(sess[r].contacts),
                                              sess[r].traffic_split)
            /\ start_ab_test_write(r, a)
            /\ finish(r, "started")
            /\ UNCHANGED contacts

NextAB ==
    \/ create_contact
    \/ \E num \in SplitNums, min \in MinSizes, vlist \in VariantLists :
            create_ab_test(num, min, vlist)
    \/ \E body \in UpdateBodies : update_ab_test_campaign(body)
    \/ \E r \in Requests : start_ab_test_load(r)
    \/ \E r \in Requests : start_ab_test_contacts(r)
    \/ \E r \in Requests : start_ab_test_commit(r)

\* ------------------------------------------------------------------------
\* Delivery: values
\* ------------------------------------------------------------------------
\* MessageStatus (models/message.py)
MessageStatus == {"pending", "sent", "delivered", "failed", "received"}

\* CampaignStatus (models/campaign.py)
CampaignStatus == {"draft", "scheduled", "active", "sending", "sent", "failed"}

\* The columns the Message model declares.  The provider's id of a message
\* is the column message_id; no column is named provider_message_id.
MessageColumns ==
    {"id", "campaign_id", "contact_id", "recipient", "content", "status",
     "sent_at", "delivered_at", "error_message", "message_id", "is_incoming",
     "created_at"}

\* Provider message ids stored with two-way messages.
ProviderIds == {"SM1"}

\* The message id and status fields webhook requests carry; "" is a field
\* the request leaves out, "SM9" an id of no stored message.
WebhookIds == ProviderIds \cup {"SM9", ""}
WebhookStatuses == {"delivered", "failed", "queued", ""}

\* The webhook endpoints that look a message up.
Endpoints == {"delivery-report", "twilio"}

Callbacks ==
    [endpoint : Endpoints, message_id : WebhookIds, status : WebhookStatuses]

\* Numbers of contacts a send request matches.
SendSizes == {1, 2}

NoCallback == [endpoint |-> "none", message_id |-> "", status |-> ""]
NoLog == [last |-> NoCallback, response |-> "none", run |-> 0, same |-> FALSE]
IdleTask == [pc |-> "idle", pending |-> {}]

\* ------------------------------------------------------------------------
\* Delivery: helpers
\* ------------------------------------------------------------------------
\* status_mapping.get(status.lower(), MessageStatus.PENDING)
status_mapping(status) ==
    CASE status \in {"delivered", "sent"} -> "sent"
      [] status \in {"failed", "undelivered"} -> "failed"
      [] OTHER -> "pending"

\* Whether the class attribute Message.provider_message_id exists.  Both
\* handlers evaluate it to build their filter; on a class without the
\* attribute that raises AttributeError, which each handler's
\* `except Exception` turns into its error reply.
has_provider_message_id == "provider_message_id" \in MessageColumns

\* db.query(Message).filter(Message.provider_message_id == id).first():
\* index of the first matching row, 0 for None.
find_message(msgs, id) ==
    IF \E i \in 1..Len(msgs) : msgs[i].provider_message_id = id
    THEN CHOOSE i \in 1..Len(msgs) :
            /\ msgs[i].provider_message_id = id
            /\ \A j \in 1..(i - 1) : msgs[j].provider_message_id # id
    ELSE 0

\* db.query(Message).filter(Message.campaign_id == campaign.id,
\*                          Message.status == status).count()
campaign_count(msgs, status) ==
    Cardinality({i \in 1..Len(msgs) :
                    msgs[i].campaign_id = 1 /\ msgs[i].status = status})

\* db.query(Message).filter(Message.campaign_id == campaign.id).count()
campaign_total(msgs) ==
    Cardinality({i \in 1..Len(msgs) : msgs[i].campaign_id = 1})

\* The database as a handler sees it.
Db == [messages |-> messages, campaign |-> d_campaign]

\* handle_delivery_report with the counters taken from the one callback
\* instead of the message rows.
delivery_report_last_wins(db, cb) ==
    IF cb.message_id = "" \/ cb.status = ""
    THEN [messages |-> db.messages, campaign |-> db.campaign,
          response |-> "Missing required fields"]
    ELSE IF db.campaign = NoRow
    THEN [messages |-> db.messages, campaign |-> db.campaign,
          response |-> "Message not found"]
    ELSE [messages |-> db.messages,
          campaign |-> [db.campaign EXCEPT
                !.delivered_count =
                    IF status_mapping(cb.status) = "sent" THEN 1 ELSE 0,
                !.failed_count =
                    IF status_mapping(cb.status) = "failed" THEN 1 ELSE 0],
          response |-> "Status updated"]

\* handle_delivery_report, lines 34-102, as a function of the database and
\* the request: the rows it leaves and the message of its reply.
delivery_report(db, cb) ==
    IF cb.message_id = "" \/ cb.status = ""
    THEN [messages |-> db.messages, campaign |-> db.campaign,
          response |-> "Missing required fields"]
    ELSE IF ~has_provider_message_id
    THEN [messages |-> db.messages, campaign |-> db.campaign,
          response |-> "Internal server error"]
    ELSE LET i == find_message(db.messages, cb.message_id)
         IN  IF i = 0
             THEN [messages |-> db.messages, campaign |-> db.campaign,
                   response |-> "Message not found"]
             ELSE LET msgs == [db.messages EXCEPT
                                ![i].status = status_mapping(cb.status)]
                      sent_count == campaign_count(msgs, "sent")
                      failed_count == campaign_count(msgs, "failed")
                  IN  [messages |-> msgs,
                       campaign |->
                         IF msgs[i].campaign_id = 1 /\ db.campaign # NoRow
                         THEN [db.campaign EXCEPT
                                !.delivered_count = sent_count,
                                !.failed_count = failed_count,
                                !.status =
                                    IF sent_count + failed_count >= campaign_total(msgs)
                                    THEN "sent" ELSE @]
                         ELSE db.campaign,
                       response |-> "Status updated"]

\* handle_twilio_webhook storing a row for a message id it does not know.
twilio_webhook_upsert(db, cb) ==
    IF cb.message_id = "" \/ cb.status = ""
    THEN [messages |-> db.messages, campaign |-> db.campaign,
          response |-> "error"]
    ELSE [messages |->
            IF Len(db.messages) < MaxMessages
            THEN Append(db.messages,
                    [campaign_id |-> 0, status |-> status_mapping(cb.status),
                     message_id |-> cb.message_id])
            ELSE db.messages,
          campaign |-> db.campaign,
          response |-> "success"]

\* handle_twilio_webhook, lines 111-150, in the same form; its replies carry
\* a status only.
twilio_webhook(db, cb) ==
    IF cb.message_id = "" \/ cb.status = ""
    THEN [messages |-> db.messages, campaign |-> db.campaign,
          response |-> "error"]
    ELSE IF ~has_provider_message_id
    THEN [messages |-> db.messages, campaign |-> db.campaign,
          response |-> "error"]
    ELSE LET i == find_message(db.messages, cb.message_id)
         IN  [messages |->
                IF i = 0 THEN db.messages
                ELSE [db.messages EXCEPT ![i].status = status_mapping(cb.status)],
              campaign |-> db.campaign,
              response |-> "success"]

\* The request log after one more webhook request: the request, its reply,
\* and whether it repeats the request served just before it.
logged(cb, response) ==
    [last |-> cb,
     response |-> response,
     run |-> IF webhook_log.run = 0 THEN 1 ELSE 2,
     same |-> webhook_log.run > 0 /\ webhook_log.last = cb]

\* ------------------------------------------------------------------------
\* Delivery: initial state
\* ------------------------------------------------------------------------
InitDelivery ==
    /\ d_campaign = NoRow
    /\ messages = <<>>
    /\ task = IdleTask
    /\ webhook_log = NoLog
    /\ provider_accepted = FALSE

\* ------------------------------------------------------------------------
\* Delivery: operations
\* ------------------------------------------------------------------------
\* POST /campaigns/: a Campaign row with the column defaults.
create_campaign ==
    /\ d_campaign = NoRow
    /\ d_campaign' = [status |-> "draft", total_recipients |-> 0,
                      delivered_count |-> 0, failed_count |-> 0]
    /\ webhook_log' = NoLog
    /\ UNCHANGED <<messages, task, provider_accepted>>

\* POST /campaigns/{id}/send: one pending Message per matched contact; the
\* provider's id of the message is not known yet and stays NULL.
send_campaign(n) ==
    /\ d_campaign # NoRow
    /\ Len(messages) + n <= MaxMessages
    /\ messages' = messages \o
            [k \in 1..n |-> [campaign_id |-> 1, status |-> "pending",
                             message_id |-> ""]]
    /\ d_campaign' = [d_campaign EXCEPT !.status = "sending",
                                        !.total_recipients = n]
    /\ webhook_log' = NoLog
    /\ UNCHANGED <<task, provider_accepted>>

\* POST /two-way-sms/incoming: the inbound message is stored with the
\* provider's MessageSid and no campaign.
handle_incoming_sms(sid) ==
    /\ Len(messages) < MaxMessages
    /\ messages' = Append(messages,
            [campaign_id |-> 0, status |-> "received", message_id |-> sid])
    /\ webhook_log' = NoLog
    /\ UNCHANGED <<d_campaign, task, provider_accepted>>

\* POST /two-way-sms/send-reply, provider accepted: the reply is stored as
\* sent with the provider's id and no campaign.
send_reply(sid) ==
    /\ Len(messages) < MaxMessages
    /\ messages' = Append(messages,
            [campaign_id |-> 0, status |-> "sent", message_id |-> sid])
    /\ webhook_log' = NoLog
    /\ UNCHANGED <<d_campaign, task, provider_accepted>>

\* process_campaign_messages, lines 360-378: mark the campaign sending and
\* commit, read its pending messages, finish at once when there are none.
process_campaign_messages_begin ==
    /\ task.pc = "idle"
    /\ d_campaign # NoRow
    /\ LET pending == {i \in 1..Len(messages) :
                        messages[i].campaign_id = 1
                        /\ messages[i].status = "pending"}
       IN  IF pending = {}
           THEN /\ d_campaign' = [d_campaign EXCEPT !.status = "sent"]
                /\ task' = IdleTask
           ELSE /\ d_campaign' = [d_campaign EXCEPT !.status = "sending"]
                /\ task' = [pc |-> "sending", pending |-> pending]
    /\ webhook_log' = NoLog
    /\ UNCHANGED <<messages, provider_accepted>>

\* db.query(Message).filter(Message.id == result["message_id"]).first() for
\* the result of an accepted send: the key is the provider's id string, the
\* column the integer primary key; no row has it.
message_by_result_id(msgs, sid) == 0

\* process_campaign_messages_end with the counters taken from the results
\* before the rows are looked up.
process_campaign_messages_end_counting(accepted, db_rejects) ==
    /\ task.pc = "sending"
    /\ accepted \subseteq task.pending
    /\ d_campaign' = [d_campaign EXCEPT
            !.delivered_count = Cardinality(accepted),
            !.failed_count = Cardinality(task.pending \ accepted),
            !.status = "sent"]
    /\ task' = IdleTask
    /\ webhook_log' = NoLog
    /\ provider_accepted' = (accepted = task.pending)
    /\ UNCHANGED messages

\* process_campaign_messages, lines 380-414, for the set of pending messages
\* the provider accepted.  The loop reads result["message_id"]: a failed
\* result has no such key (KeyError); an accepted one has the provider's id,
\* which a database that checks types rejects as a key for Message.id
\* (db_rejects) and any other matches with no row.  An exception leaves the
\* task with nothing committed after line 367.
process_campaign_messages_end(accepted, db_rejects) ==
    /\ task.pc = "sending"
    /\ accepted \subseteq task.pending
    /\ LET raises == \/ task.pending \ accepted # {}
                     \/ accepted # {} /\ db_rejects
           found == {i \in accepted :
                        message_by_result_id(messages, "SM1") # 0}
       IN  IF raises
           THEN UNCHANGED d_campaign
           ELSE d_campaign' = [d_campaign EXCEPT
                    !.delivered_count = Cardinality(found),
                    !.failed_count = 0,
                    !.status = "sent"]
    /\ task' = IdleTask
    /\ webhook_log' = NoLog
    /\ provider_accepted' = (accepted = task.pending)
    /\ UNCHANGED messages

\* handle_delivery_report bumping a counter in place for the status each
\* request reports, whatever the rows say.
handle_delivery_report_increment(cb) ==
    /\ cb.endpoint = "delivery-report"
    /\ LET counted == cb.message_id # "" /\ cb.status # "" /\ d_campaign # NoRow
           internal == status_mapping(cb.status)
       IN  /\ d_campaign' =
                IF counted
                THEN [d_campaign EXCEPT
                        !.delivered_count =
                            IF internal = "sent" THEN Min(@ + 1, MaxMessages) ELSE @,
                        !.failed_count =
                            IF internal = "failed" THEN Min(@ + 1, MaxMessages) ELSE @]
                ELSE d_campaign
           /\ webhook_log' = logged(cb, IF counted THEN "Status updated"
                                        ELSE "Missing required fields")
    /\ UNCHANGED <<messages, task, provider_accepted>>

\* POST /webhooks/delivery-report
handle_delivery_report(cb) ==
    /\ cb.endpoint = "delivery-report"
    /\ LET out == delivery_report(Db, cb)
       IN  /\ messages' = out.messages
           /\ d_campaign' = out.campaign
           /\ webhook_log' = logged(cb, out.response)
    /\ UNCHANGED <<task, provider_accepted>>

\* POST /webhooks/twilio
handle_twilio_webhook(cb) ==
    /\ cb.endpoint = "twilio"
    /\ LET out == twilio_webhook(Db, cb)
       IN  /\ messages' = out.messages
           /\ d_campaign' = out.campaign
           /\ webhook_log' = logged(cb, out.response)
    /\ UNCHANGED <<task, provider_accepted>>

NextDelivery ==
    \/ create_campaign
    \/ \E n \in SendSizes : send_campaign(n)
    \/ \E sid \in ProviderIds : handle_incoming_sms(sid)
    \/ \E sid \in ProviderIds : send_reply(sid)
    \/ process_campaign_messages_begin
    \/ \E accepted \in SUBSET task.pending, db_rejects \in BOOLEAN :
            process_campaign_messages_end(accepted, db_rejects)
    \/ \E cb \in Callbacks : handle_delivery_report(cb)
    \/ \E cb \in Callbacks : handle_twilio_webhook(cb)

\* ------------------------------------------------------------------------
\* Bulk sending: send_bulk_sms
\* ------------------------------------------------------------------------
\* batch_size = 10
BatchSize == 10

\* What the provider does with one message: accept it, answer with a
\* failure, or fail to answer (connection error, timeout).
ProviderBehaviours == {"ok", "rejected", "raises"}

\* Input lists: message k goes to phone k, so that an outcome names the
\* input it belongs to.
BulkInputs ==
    UNION {[1..n -> ProviderBehaviours] : n \in 0..MaxBulk}

\* send_sms for one message.  A provider call that raises is caught inside
\* send_sms (its `except Exception`) or inside the provider method, which
\* returns a failure with the keys of the one for a provider's refusal; the
\* two differ in the text under "error" only.
send_sms(behaviour) ==
    IF behaviour = "ok"
    THEN [success |-> TRUE, status |-> "sent", error |-> "",
          exception |-> FALSE]
    ELSE [success |-> FALSE, status |-> "failed",
          error |-> IF behaviour = "raises" THEN "exception text"
                    ELSE "provider error",
          exception |-> FALSE]

\* The batch loop's body for the batch that starts after `i` messages, with
\* each outcome labelled by the phone at the batch offset of the whole list.
send_bulk_batch_misindexed(msgs, i) ==
    LET size == Min(BatchSize, Len(msgs) - i)
        batch_results == [j \in 1..size |-> send_sms(msgs[i + j])]
    IN  [j \in 1..size |->
            IF batch_results[j].exception
            THEN [success |-> FALSE, status |-> "failed",
                  error |-> "exception text", phone |-> j]
            ELSE [success |-> batch_results[j].success,
                  status |-> batch_results[j].status,
                  error |-> batch_results[j].error,
                  phone |-> j]]

\* Lines 175-193 for the batch messages[i:i + batch_size]: gather the
\* sends with return_exceptions=True, then one result per message in batch
\* order, a raised exception becoming a failure, each with the phone of the
\* message at the same offset of the batch.
send_bulk_batch(msgs, i) ==
    LET size == Min(BatchSize, Len(msgs) - i)
        batch_results == [j \in 1..size |-> send_sms(msgs[i + j])]
    IN  [j \in 1..size |->
            IF batch_results[j].exception
            THEN [success |-> FALSE, status |-> "failed",
                  error |-> "exception text", phone |-> i + j]
            ELSE [success |-> batch_results[j].success,
                  status |-> batch_results[j].status,
                  error |-> batch_results[j].error,
                  phone |-> i + j]]

IdleBulk == [pc |-> "idle", messages |-> <<>>, i |-> 0, results |-> <<>>]

\* A call of send_bulk_sms with some input list.
InitBulk == \E msgs \in BulkInputs :
    bulk = [pc |-> "running", messages |-> msgs, i |-> 0, results |-> <<>>]

\* One pass of `for i in range(0, len(messages), batch_size)`.
send_bulk_sms_batch ==
    /\ bulk.pc = "running"
    /\ bulk.i < Len(bulk.messages)
    /\ bulk' = [bulk EXCEPT
            !.results = @ \o send_bulk_batch(bulk.messages, bulk.i),
            !.i = @ + BatchSize]

\* `return results` after the last batch.
send_bulk_sms_return ==
    /\ bulk.pc = "running"
    /\ bulk.i >= Len(bulk.messages)
    /\ bulk' = [bulk EXCEPT !.pc = "done"]

NextBulk == send_bulk_sms_batch \/ send_bulk_sms_return

\* ------------------------------------------------------------------------
\* Bulk sending: the provider calls of a batch
\* ------------------------------------------------------------------------
\* Input lists for the call-level view: n messages the provider treats
\* alike (the order of the calls does not depend on their outcomes).
GatherInputs ==
    {[k \in 1..n |-> b] : n \in 0..MaxBulk, b \in {"ok", "raises"}}

\* The positions of messages[i:i + batch_size] in the input list.
batch_at(msgs, i) == (i + 1)..Min(i + BatchSize, Len(msgs))

\* A call of send_bulk_sms with some input list; no send has started.
InitGather == \E msgs \in GatherInputs :
    /\ bulk = [pc |-> "running", messages |-> msgs, i |-> 0, results |-> <<>>]
    /\ calls = [k \in 1..Len(msgs) |-> "none"]

\* asyncio.gather(*tasks), line 179: the send of a message of the current
\* batch starts.
start_send(j) ==
    /\ bulk.pc = "running"
    /\ j \in batch_at(bulk.messages, bulk.i)
    /\ calls[j] = "none"
    /\ calls' = [calls EXCEPT ![j] = "running"]
    /\ UNCHANGED bulk

\* A send that was started returns its result or its exception.
complete_send(j) ==
    /\ bulk.pc = "running"
    /\ j \in DOMAIN calls
    /\ calls[j] = "running"
    /\ calls' = [calls EXCEPT ![j] = "done"]
    /\ UNCHANGED bulk

\* A gather that hands over as soon as every send of the batch has started.
gather_done_started(c, msgs, i) ==
    \A j \in batch_at(msgs, i) : c[j] # "none"

\* `await asyncio.gather(*tasks, return_exceptions=True)` returns: every
\* send of the batch has returned or raised.
gather_done(c, msgs, i) ==
    \A j \in batch_at(msgs, i) : c[j] = "done"

\* Lines 179-196 once gather has returned: the results of the batch are
\* appended and the loop moves on.
send_bulk_sms_gathered ==
    /\ gather_done(calls, bulk.messages, bulk.i)
    /\ send_bulk_sms_batch
    /\ UNCHANGED calls

NextGather ==
    \/ \E j \in 1..MaxBulk : start_send(j)
    \/ \E j \in 1..MaxBulk : complete_send(j)
    \/ send_bulk_sms_gathered
    \/ send_bulk_sms_return /\ UNCHANGED calls

\* ------------------------------------------------------------------------
\* Python float arithmetic (IEEE 754 binary64, round to nearest even)
\* ------------------------------------------------------------------------
\* A natural number of any size is a sequence of limbs in base LimbBase,
\* lowest limb first, without high zero limbs; <<>> is 0.  A non-negative
\* float is [m |-> mantissa of exactly MantissaBits bits, e |-> exponent],
\* standing for m * 2^e; 0.0 is [m |-> <<>>, e |-> 0].  The values of the
\* analysis stay far from the subnormal and overflow ranges.
LimbBase == 32768
LimbBits == 15
MantissaBits == 53

RECURSIVE big_trim(_)
big_trim(x) ==
    IF x = <<>> THEN x
    ELSE IF x[Len(x)] = 0 THEN big_trim(SubSeq(x, 1, Len(x) - 1))
    ELSE x

\* x * k + c for a small factor k and carry c.
RECURSIVE big_scale(_, _, _)
big_scale(x, k, c) ==
    IF x = <<>> THEN (IF c = 0 THEN <<>> ELSE <<c>>)
    ELSE LET t == Head(x) * k + c
         IN  <<t % LimbBase>> \o big_scale(Tail(x), k, t \div LimbBase)

\* x div 2
big_half(x) ==
    big_trim([i \in 1..Len(x) |->
        (x[i] \div 2)
        + (IF i < Len(x) THEN (x[i + 1] % 2) * (LimbBase \div 2) ELSE 0)])

big_odd(x) == x # <<>> /\ x[1] % 2 = 1

RECURSIVE big_ge_at(_, _, _)
big_ge_at(x, y, i) ==
    IF i = 0 THEN TRUE
    ELSE IF x[i] # y[i] THEN x[i] > y[i]
    ELSE big_ge_at(x, y, i - 1)

\* x >= y
big_ge(x, y) ==
    IF Len(x) # Len(y) THEN Len(x) > Len(y) ELSE big_ge_at(x, y, Len(x))

RECURSIVE big_sub_b(_, _, _)
big_sub_b(x, y, borrow) ==
    IF x = <<>> THEN <<>>
    ELSE LET t == Head(x) - (IF y = <<>> THEN 0 ELSE Head(y)) - borrow
         IN  <<IF t < 0 THEN t + LimbBase ELSE t>>
             \o big_sub_b(Tail(x), IF y = <<>> THEN y ELSE Tail(y),
                          IF t < 0 THEN 1 ELSE 0)

\* x - y for x >= y
big_sub(x, y) == big_trim(big_sub_b(x, y, 0))

RECURSIVE limb_bits(_)
limb_bits(n) == IF n = 0 THEN 0 ELSE 1 + limb_bits(n \div 2)

\* Number of bits of x.
big_bits(x) ==
    IF x = <<>> THEN 0
    ELSE LimbBits * (Len(x) - 1) + limb_bits(x[Len(x)])

RECURSIVE pow2(_)
pow2(k) == IF k = 0 THEN 1 ELSE 2 * pow2(k - 1)

\* x * 2^k: whole limbs first, then the remaining bits.
big_shl(x, k) ==
    IF x = <<>> THEN x
    ELSE big_scale([i \in 1..(k \div LimbBits) |-> 0] \o x,
                   pow2(k % LimbBits), 0)

FloatZero == [m |-> <<>>, e |-> 0]

\* The float nearest to m * 2^e (plus, when sticky, a positive amount below
\* the lowest bit of m), ties to even.
RECURSIVE round_float(_, _, _)
round_float(m, e, sticky) ==
    IF m = <<>> THEN FloatZero
    ELSE IF big_bits(m) <= MantissaBits
    THEN [m |-> big_shl(m, MantissaBits - big_bits(m)),
          e |-> e - (MantissaBits - big_bits(m))]
    ELSE IF big_bits(m) > MantissaBits + 1
    THEN round_float(big_half(m), e + 1, sticky \/ big_odd(m))
    ELSE LET q == big_half(m)
             up == big_odd(m) /\ (sticky \/ big_odd(q))
             r == IF up THEN big_scale(q, 1, 1) ELSE q
         IN  IF big_bits(r) > MantissaBits
             THEN [m |-> big_half(r), e |-> e + 2]
             ELSE [m |-> r, e |-> e + 1]

\* float(n) for a natural n below LimbBase squared.
int_to_float(n) ==
    round_float(big_trim(<<n % LimbBase, n \div LimbBase>>), 0, FALSE)

\* The next `k` quotient bits of rem / d, by long division.
RECURSIVE divide_bits(_, _, _, _)
divide_bits(rem, d, q, k) ==
    IF k = 0 THEN [q |-> q, rem |-> rem]
    ELSE LET r2 == big_scale(rem, 2, 0)
         IN  IF Len(q) >= 0 /\ big_ge(r2, d)   \* q is evaluated at every step
             THEN divide_bits(big_sub(r2, d), d, big_scale(q, 2, 1), k - 1)
             ELSE divide_bits(r2, d, big_scale(q, 2, 0), k - 1)

\* x / y for floats, y # 0.
float_div(x, y) ==
    IF x.m = <<>> THEN FloatZero
    ELSE LET first == big_ge(x.m, y.m)
             out == divide_bits(IF first THEN big_sub(x.m, y.m) ELSE x.m,
                                y.m,
                                IF first THEN <<1>> ELSE <<>>,
                                MantissaBits + 2)
         IN  round_float(out.q, x.e - y.e - (MantissaBits + 2), out.rem # <<>>)

\* x - y for floats x >= y.
float_sub(x, y) ==
    IF y.m = <<>> THEN x
    ELSE LET e == IF x.e < y.e THEN x.e ELSE y.e
         IN  round_float(big_sub(big_shl(x.m, x.e - e), big_shl(y.m, y.e - e)),
                         e, FALSE)

\* x * k for a float x and the float of a small natural k.
float_scale(x, k) == round_float(big_scale(x.m, k, 0), x.e, FALSE)

\* x > y for floats.
float_gt(x, y) ==
    IF x.m = <<>> THEN FALSE
    ELSE IF y.m = <<>> THEN TRUE
    ELSE IF x.e # y.e THEN x.e > y.e
    ELSE x.m # y.m /\ big_ge(x.m, y.m)

\* ((hi - lo) / lo) * 100 for rates hi > lo > 0.
improvement(hi, lo) == float_scale(float_div(float_sub(hi, lo), lo), 100)

\* ------------------------------------------------------------------------
\* A/B analysis: values
\* ------------------------------------------------------------------------
\* confidence_level = 0.95, the default of the column and of the schema.
\* p_value < 1 - confidence_level holds exactly when z^2 exceeds the square
\* of the two-sided critical value 1.959964, CriticalNum / CriticalDen.
CriticalNum == 38415
CriticalDen == 10000

\* Sizes of the contact list a test is started on; 200 is the list of the
\* worked scenario of the analysis.
TestSizes == (1..MaxCount) \cup {200}

\* Values a metric update gives a conversion counter; 20 and 35 are the
\* opens of the worked scenario.
OpenedCounts == (0..MaxCount) \cup {20, 35}

\* The keys of metrics_data the analysis reads.
MetricKeys == {"variant_a_opened", "variant_b_opened"}

\* The users that send requests: the owner of the test (its user_id) and
\* another authenticated user.
Users == {"owner", "other"}
NoUser == "none"

\* The keys of metrics_data that carry the delivered counters, and the values
\* a metric update gives them.
DeliveredKeys == {"variant_a_delivered", "variant_b_delivered"}
DeliveredCounts == (0..MaxCount) \cup {100}

\* statistical_significance = Column(Float, default=0.0); an analysis
\* stores its p-value there.  The row keeps the side of 1 - confidence_level
\* the stored p-value lies on.
DefaultSignificance == "default"
significance_class(significant) == IF significant THEN "below" ELSE "above"

\* p_value of a failed analysis: none.
NoPValue == [num |-> <<>>, den |-> <<>>]

\* The counter and analysis columns of a new ABTestCampaign row.
NewTest ==
    [absent |-> FALSE, status |-> "draft",
     variant_a_recipients |-> 0, variant_b_recipients |-> 0,
     variant_a_delivered |-> 0, variant_b_delivered |-> 0,
     variant_a_opened |-> 0, variant_b_opened |-> 0,
     statistical_significance |-> DefaultSignificance,
     winner_variant |-> "None"]

NoTest == [absent |-> TRUE]

\* No reply: the last request was not an analysis.  tick tells consecutive
\* analysis requests apart.
NoAnalysis ==
    [success |-> FALSE, error |-> "none", winner |-> "None",
     is_significant |-> FALSE, improvement_percentage |-> FloatZero,
     tick |-> 0]

\* ------------------------------------------------------------------------
\* A/B analysis: analyze_ab_test as a function of the row
\* ------------------------------------------------------------------------
RECURSIVE big_product(_)
big_product(factors) ==
    IF factors = <<>> THEN <<1>>
    ELSE big_scale(big_product(Tail(factors)), Head(factors), 0)

big_gt(x, y) == x # y /\ big_ge(x, y)

abs_diff(i, j) == IF i >= j THEN i - j ELSE j - i

\* rate = conversions / recipients
rate(conversions, n) ==
    float_div(int_to_float(conversions), int_to_float(n))

\* se > 0: the pooled proportion is neither 0 nor 1.
se_positive(t) ==
    /\ t.variant_a_opened + t.variant_b_opened > 0
    /\ t.variant_a_opened + t.variant_b_opened
           < t.variant_a_recipients + t.variant_b_recipients

\* z_score^2 = (p2 - p1)^2 / se^2 as the fraction num / den of naturals.
z_squared(t) ==
    LET n1 == t.variant_a_recipients
        n2 == t.variant_b_recipients
        a == t.variant_a_opened
        b == t.variant_b_opened
        d == abs_diff(b * n1, a * n2)
    IN  IF se_positive(t)
        THEN [num |-> big_product(<<d, d, n1 + n2>>),
              den |-> big_product(<<n1, n2, a + b, n1 + n2 - a - b>>)]
        ELSE [num |-> <<>>, den |-> <<1>>]

\* p_value < 1 - confidence_level
is_significant(z2) ==
    big_gt(big_scale(z2.num, CriticalDen, 0),
           big_scale(big_scale(z2.den, 5, 0), CriticalNum \div 5, 0))

\* math.sqrt of a negative number (line 200) or math.asin of a number
\* above 1 (line 212): ValueError.
math_domain_error(t) ==
    \/ t.variant_a_opened + t.variant_b_opened
            > t.variant_a_recipients + t.variant_b_recipients
    \/ t.variant_a_opened > t.variant_a_recipients
    \/ t.variant_b_opened > t.variant_b_recipients

failure(message) ==
    [success |-> FALSE, error |-> message, winner |-> "None",
     is_significant |-> FALSE, improvement_percentage |-> FloatZero,
     p_value |-> NoPValue, rate_a |-> FloatZero, rate_b |-> FloatZero]

\* Lines 220-232 with the control variant A named for every insignificant
\* difference.
determine_winner_control(significant, rate_a, rate_b) ==
    IF ~significant
    THEN [raises |-> FALSE, winner |-> "A",
          improvement_percentage |-> FloatZero]
    ELSE IF float_gt(rate_b, rate_a)
    THEN [raises |-> rate_a = FloatZero, winner |-> "B",
          improvement_percentage |->
            IF rate_a = FloatZero THEN FloatZero ELSE improvement(rate_b, rate_a)]
    ELSE [raises |-> rate_b = FloatZero, winner |-> "A",
          improvement_percentage |->
            IF rate_b = FloatZero THEN FloatZero ELSE improvement(rate_a, rate_b)]

\* Lines 220-232: winner and improvement_percentage; raises is the
\* ZeroDivisionError of dividing by a loser's rate of 0.
determine_winner(significant, rate_a, rate_b) ==
    IF ~significant
    THEN [raises |-> FALSE, winner |-> "None",
          improvement_percentage |-> FloatZero]
    ELSE IF float_gt(rate_b, rate_a)
    THEN [raises |-> rate_a = FloatZero, winner |-> "B",
          improvement_percentage |->
            IF rate_a = FloatZero THEN FloatZero ELSE improvement(rate_b, rate_a)]
    ELSE IF float_gt(rate_a, rate_b)
    THEN [raises |-> rate_b = FloatZero, winner |-> "A",
          improvement_percentage |->
            IF rate_b = FloatZero THEN FloatZero ELSE improvement(rate_a, rate_b)]
    ELSE [raises |-> FALSE, winner |-> "inconclusive",
          improvement_percentage |-> FloatZero]

\* analyze_ab_test, lines 172-284, up to the database writes: what it
\* returns for the row t.
analysis_of(t) ==
    IF t = NoTest THEN failure("Campaign not found")
    ELSE IF t.variant_a_recipients = 0 \/ t.variant_b_recipients = 0
    THEN failure("Insufficient data for analysis")
    ELSE IF math_domain_error(t) THEN failure("math domain error")
    ELSE LET rate_a == rate(t.variant_a_opened, t.variant_a_recipients)
             rate_b == rate(t.variant_b_opened, t.variant_b_recipients)
             z2 == z_squared(t)
             significant == is_significant(z2)
             won == determine_winner(significant, rate_a, rate_b)
         IN  IF won.raises THEN failure("float division by zero")
             ELSE [success |-> TRUE, error |-> "none",
                   winner |-> won.winner,
                   is_significant |-> significant,
                   improvement_percentage |-> won.improvement_percentage,
                   p_value |-> z2, rate_a |-> rate_a, rate_b |-> rate_b]

\* The reply: success with the "analysis" dict, or the error.
reply_of(out, tick) ==
    [success |-> out.success, error |-> out.error, winner |-> out.winner,
     is_significant |-> out.is_significant,
     improvement_percentage |-> out.improvement_percentage,
     tick |-> tick]

\* ------------------------------------------------------------------------
\* A/B analysis: operations
\* ------------------------------------------------------------------------
InitAnalysis ==
    /\ ab_test = NoTest
    /\ ab_results = <<>>
    /\ analysis = NoAnalysis

\* create_ab_test: the row with its column defaults.
create_ab_test_row ==
    /\ ab_test = NoTest
    /\ ab_test' = NewTest
    /\ analysis' = NoAnalysis
    /\ UNCHANGED ab_results

\* start_ab_test on a draft test with n contacts and split num / SplitDen,
\* lines 76-77 and 91-131: the status and the recipient counters it commits.
start_ab_test_counters(n, num) ==
    /\ ab_test # NoTest
    /\ ab_test.status = "draft"
    /\ ab_test' = [ab_test EXCEPT
            !.status = "running",
            !.variant_a_recipients = variant_a_len(n, num),
            !.variant_b_recipients = n - variant_a_len(n, num)]
    /\ analysis' = NoAnalysis
    /\ UNCHANGED ab_results

\* update_ab_test_metrics that also clears the stored results.
update_ab_test_metrics_clearing(key, value) ==
    /\ ab_test # NoTest
    /\ ab_test' = [ab_test EXCEPT ![key] = value]
    /\ analysis' = NoAnalysis
    /\ ab_results' = <<>>

\* update_ab_test_metrics with metrics_data = {key: value}: setattr on the
\* row, whatever the value was before, then commit.
update_ab_test_metrics(key, value) ==
    /\ ab_test # NoTest
    /\ ab_test' = [ab_test EXCEPT ![key] = value]
    /\ analysis' = NoAnalysis
    /\ UNCHANGED ab_results

\* analyze_ab_test that records its outcome also when it fails.
analyze_ab_test_recording ==
    LET out == analysis_of(ab_test)
    IN  /\ Len(ab_results) < MaxResults
        /\ ab_test # NoTest
        /\ analysis' = reply_of(out, 1 - analysis.tick)
        /\ ab_results' = Append(ab_results, [winner_variant |-> out.winner])
        /\ ab_test' = [ab_test EXCEPT
                !.statistical_significance = significance_class(out.is_significant),
                !.winner_variant = "inconclusive"]

\* POST /campaigns/{id}/analyze: analyze_ab_test, lines 172-284.  A
\* successful analysis adds one ABTestResult and stores p-value and winner
\* on the row; a failed one returns before anything is added.
analyze_ab_test ==
    LET out == analysis_of(ab_test)
    IN  /\ out.success => Len(ab_results) < MaxResults
        /\ analysis' = reply_of(out, 1 - analysis.tick)
        /\ IF out.success
           THEN /\ ab_results' = Append(ab_results, [winner_variant |-> out.winner])
                /\ ab_test' = [ab_test EXCEPT
                        !.statistical_significance =
                            significance_class(out.is_significant),
                        !.winner_variant = out.winner]
           ELSE UNCHANGED <<ab_test, ab_results>>

\* DELETE /campaigns/{id}: the row and its results.
delete_ab_test_campaign ==
    /\ ab_test # NoTest
    /\ ab_test' = NoTest
    /\ ab_results' = <<>>
    /\ analysis' = NoAnalysis

NextAnalysis ==
    \/ create_ab_test_row
    \/ \E n \in TestSizes, num \in SplitNums : start_ab_test_counters(n, num)
    \/ \E key \in MetricKeys, value \in OpenedCounts :
            update_ab_test_metrics(key, value)
    \/ analyze_ab_test
    \/ delete_ab_test_campaign

\* POST /campaigns/{id}/analyze by `user`, router lines 137-159: the router
\* authenticates the user and hands the service the campaign id alone.
analyze_ab_test_campaign(user) ==
    /\ analyze_ab_test
    /\ requester' = user

\* The requests on one test, each analysis coming from some user.
NextTenant ==
    \/ create_ab_test_row /\ requester' = NoUser
    \/ \E n \in TestSizes, num \in SplitNums :
            start_ab_test_counters(n, num) /\ requester' = NoUser
    \/ \E key \in MetricKeys, value \in OpenedCounts :
            update_ab_test_metrics(key, value) /\ requester' = NoUser
    \/ \E user \in Users : analyze_ab_test_campaign(user)
    \/ delete_ab_test_campaign /\ requester' = NoUser

\* The counters of one test: start and metric updates of the delivered
\* counters.
NextCounters ==
    \/ create_ab_test_row
    \/ \E n \in TestSizes, num \in SplitNums : start_ab_test_counters(n, num)
    \/ \E key \in DeliveredKeys, value \in DeliveredCounts :
            update_ab_test_metrics(key, value)
    \/ delete_ab_test_campaign

\* ------------------------------------------------------------------------
\* Specifications
\* ------------------------------------------------------------------------
\* No analysis request was served and no bulk call is under way.
InitIdle == requester = NoUser /\ calls = <<>>

Init == InitAB /\ InitDelivery /\ bulk = IdleBulk /\ InitAnalysis /\ InitIdle

Next == NextAB /\ UNCHANGED <<dvars, bulk, avars, xvars>>

Spec == Init /\ [][Next]_vars

\* Campaign delivery: sends, the background task and the webhooks.
InitD == InitAB /\ InitDelivery /\ bulk = IdleBulk /\ InitAnalysis /\ InitIdle

NextD == NextDelivery /\ UNCHANGED <<abvars, bulk, avars, xvars>>

SpecDelivery == InitD /\ [][NextD]_vars

\* send_bulk_sms over every bounded input list.
InitB == InitAB /\ InitDelivery /\ InitBulk /\ InitAnalysis /\ InitIdle

NextB == NextBulk /\ UNCHANGED <<abvars, dvars, avars, xvars>>

SpecBulk == InitB /\ [][NextB]_vars

\* send_bulk_sms at the level of its provider calls.
InitG == InitAB /\ InitDelivery /\ InitGather /\ InitAnalysis /\ requester = NoUser

NextG == NextGather /\ UNCHANGED <<abvars, dvars, avars, requester>>

SpecGather == InitG /\ [][NextG]_vars

\* Metric updates and analyses of one A/B test.
InitA == InitAB /\ InitDelivery /\ bulk = IdleBulk /\ InitAnalysis /\ InitIdle

NextA == NextAnalysis /\ UNCHANGED <<abvars, dvars, bulk, xvars>>

SpecAnalysis == InitA /\ [][NextA]_vars

\* The counter columns of one A/B test under start and metric updates.
InitC == InitAB /\ InitDelivery /\ bulk = IdleBulk /\ InitAnalysis /\ InitIdle

\* Analysis requests of the owner and of another user on one A/B test.
InitT == InitAB /\ InitDelivery /\ bulk = IdleBulk /\ InitAnalysis /\ InitIdle

NextT == NextTenant /\ UNCHANGED <<abvars, dvars, bulk, calls>>

SpecTenant == InitT /\ [][NextT]_vars

NextC == NextCounters /\ UNCHANGED <<abvars, dvars, bulk, xvars>>

SpecCounters == InitC /\ [][NextC]_vars

TypeOK ==
    /\ contacts \subseteq 1..MaxContacts
    /\ \A r \in Requests : pc[r] \in {"idle", "contacts", "commit", "done"}

\* ------------------------------------------------------------------------
\* A/B test: claims
\* ------------------------------------------------------------------------
\* The committed rows of the test.
TestRows == <<campaign, variants, recipients>>

\* Contacts that gain a recipient row of variant A (B) in a step.
AssignedA == {c \in 1..MaxContacts : recipients'[c].A = recipients[c].A + 1}
AssignedB == {c \in 1..MaxContacts : recipients'[c].B = recipients[c].B + 1}

\* C1: every successful start of a draft test over N contacts with split s
\* gives floor(N*s) contacts to variant A and N - floor(N*s) to variant B,
\* assigns every contact of the population exactly once, and stores those
\* two numbers on the variants and on the test.
C1_FloorSplit ==
    [][\A r \in Requests :
        (pc[r] = "commit" /\ pc'[r] = "done" /\ resp'.result = "started") =>
            LET N == Cardinality(sess[r].contacts)
                k == (N * sess[r].traffic_split) \div SplitDen
            IN  /\ Cardinality(AssignedA) = k
                /\ Cardinality(AssignedB) = N - k
                /\ AssignedA \cup AssignedB = sess[r].contacts
                /\ AssignedA \cap AssignedB = {}
                /\ \A c \in 1..MaxContacts :
                        (recipients'[c].A - recipients[c].A)
                        + (recipients'[c].B - recipients[c].B)
                        = (IF c \in sess[r].contacts THEN 1 ELSE 0)
                /\ variants'[find_variant(variants', "A")].recipients_count = k
                /\ variants'[find_variant(variants', "B")].recipients_count = N - k
                /\ campaign'.variant_a_recipients = k
                /\ campaign'.variant_b_recipients = N - k]_vars

\* C2: in every reachable state each contact is bound by at most one
\* recipient row to at most one variant of the test.
C2_OneVariantPerContact ==
    \A c \in 1..MaxContacts : recipients[c].A + recipients[c].B <= 1

\* C3: a start that finds fewer contacts than minimum_sample_size answers
\* with the not-enough-contacts error, adds no recipient row and leaves the
\* committed test (status draft, started_at) as it was; nothing of the
\* request's session survives it.
C3_InsufficientSampleKeepsDraft ==
    [][\A r \in Requests :
        (/\ pc[r] = "contacts"
         /\ pc'[r] # pc[r]
         /\ Cardinality(contacts) < sess[r].minimum_sample_size) =>
            /\ resp' = [code |-> 500, result |-> "not_enough"]
            /\ TestRows' = TestRows
            /\ sess'[r] = NoSession
            /\ pc'[r] = "done"]_vars

\* A state C3 is about: the not-enough-contacts error was given for a test
\* that is in draft, never started, without recipient rows.
C3_Witness ==
    /\ resp.result = "not_enough"
    /\ campaign # NoRow
    /\ campaign.status = "draft"
    /\ ~campaign.started_at
    /\ Cardinality(contacts) < campaign.minimum_sample_size
    /\ \A c \in 1..MaxContacts : recipients[c] = [A |-> 0, B |-> 0]

\* C4: a start request that reads a status other than draft is answered
\* with the not-in-draft error, goes no further into start_ab_test, and
\* leaves status, started_at, recipient rows and recipient counters as they
\* were.
C4_NonDraftStartRejected ==
    [][\A r \in Requests :
        (/\ pc[r] = "idle"
         /\ campaign # NoRow
         /\ campaign.status # "draft"
         /\ pc'[r] # pc[r]) =>
            /\ resp' = [code |-> 500, result |-> "not_draft"]
            /\ pc'[r] = "done"
            /\ sess'[r] = NoSession
            /\ TestRows' = TestRows]_vars

\* A state C4 is about: the not-in-draft error was given for a test that is
\* running, paused, completed or cancelled.
C4_Witness ==
    /\ resp.result = "not_draft"
    /\ campaign # NoRow
    /\ campaign.status \in {"running", "paused", "completed", "cancelled"}
    /\ \E r \in Requests : pc[r] = "done"

\* The status changes the lifecycle permits.
AllowedTransitions ==
    {<<"draft", "running">>, <<"running", "paused">>, <<"paused", "running">>,
     <<"running", "completed">>, <<"draft", "cancelled">>,
     <<"running", "cancelled">>}

\* C5: the status of a test only ever changes along draft->running,
\* running->paused, paused->running, running->completed, draft->cancelled
\* and running->cancelled.
C5_OnlyAllowedTransitions ==
    [][(campaign # NoRow /\ campaign' # NoRow
            /\ campaign'.status # campaign.status) =>
        <<campaign.status, campaign'.status>> \in AllowedTransitions]_vars

\* C6: a test row only comes into existence in draft, with exactly two
\* variants and a traffic split strictly between 0 and 1.
C6_CreateValidates ==
    [][(campaign = NoRow /\ campaign' # NoRow) =>
        /\ campaign'.status = "draft"
        /\ Len(variants') = 2
        /\ 0 < campaign'.traffic_split
        /\ campaign'.traffic_split < SplitDen]_vars

\* ------------------------------------------------------------------------
\* Delivery and bulk sending: claims
\* ------------------------------------------------------------------------
\* C7: a delivery callback that repeats the one served just before it (same
\* message id, same status) leaves every message row and the campaign's
\* counters as the first one left them.
C7_RepeatedCallbackChangesNothing ==
    [][(webhook_log'.run = 2 /\ webhook_log'.same)
            => UNCHANGED <<messages, d_campaign>>]_vars

\* A callback for a stored message's id was served twice in a row while a
\* campaign with messages exists.
C7_Witness ==
    /\ webhook_log.run = 2
    /\ webhook_log.same
    /\ webhook_log.last.endpoint = "delivery-report"
    /\ webhook_log.last.status = "delivered"
    /\ \E i \in 1..Len(messages) :
            messages[i].message_id = webhook_log.last.message_id
    /\ d_campaign # NoRow
    /\ campaign_total(messages) > 0

\* The delivery callbacks that pass the handler's required-field check.
DeliveryCallbacks ==
    {cb \in Callbacks :
        cb.endpoint = "delivery-report" /\ cb.message_id # "" /\ cb.status # ""}

\* The rows a sequence of delivery callbacks leaves, served one by one.
RECURSIVE serve_all(_, _)
serve_all(db, cbs) ==
    IF cbs = <<>> THEN db
    ELSE LET out == delivery_report(db, Head(cbs))
         IN  serve_all([messages |-> out.messages, campaign |-> out.campaign],
                       Tail(cbs))

counters(db) ==
    IF db.campaign = NoRow THEN <<0, 0>>
    ELSE <<db.campaign.delivered_count, db.campaign.failed_count>>

\* DeliveryCallbacks in some fixed order.
RECURSIVE enumerate(_)
enumerate(S) ==
    IF S = {} THEN <<>>
    ELSE LET x == CHOOSE y \in S : TRUE IN <<x>> \o enumerate(S \ {x})

DeliveryOrder == enumerate(DeliveryCallbacks)

C9_OneOutcomePerMessage ==
    bulk.pc = "done" =>
        /\ Len(bulk.results) = Len(bulk.messages)
        /\ \A k \in 1..Len(bulk.messages) :
            /\ bulk.results[k].phone = k
            /\ bulk.results[k].success = (bulk.messages[k] = "ok")
            /\ bulk.results[k].status =
                    IF bulk.messages[k] = "ok" THEN "sent" ELSE "failed"

\* A list longer than one batch whose seventh message timed out and whose
\* first batch also held a refusal; a message of the second batch was sent.
C9_Witness ==
    /\ bulk.pc = "done"
    /\ Len(bulk.messages) > BatchSize
    /\ bulk.messages[7] = "raises"
    /\ bulk.messages[3] = "rejected"
    /\ bulk.messages[8] = "ok" /\ bulk.results[8].success
    /\ bulk.messages[BatchSize + 1] = "ok"
    /\ bulk.results[BatchSize + 1].success

\* C11: once the provider has taken every message of a campaign of one
\* message and a processed delivery callback reports that message (under the
\* provider's id, which the program never stored) delivered, all of the
\* campaign's messages are delivered or failed and the campaign is sent.
C11_SentWhenAllProcessed ==
    (/\ d_campaign # NoRow
     /\ campaign_total(messages) = 1
     /\ provider_accepted
     /\ task.pc = "idle"
     /\ webhook_log.run > 0
     /\ webhook_log.last = [endpoint |-> "delivery-report",
                            message_id |-> "SM9", status |-> "delivered"])
        => d_campaign.status = "sent"

\* The bodies the two handlers answer with (HTTP 200 each).
WebhookReplies ==
    {"Missing required fields", "Message not found", "Status updated",
     "Internal server error", "error", "success"}

\* A step that serves a well-formed callback whose id no stored message has.
UnknownIdCallback ==
    /\ webhook_log' # webhook_log
    /\ webhook_log'.run > 0
    /\ webhook_log'.last.message_id # ""
    /\ webhook_log'.last.status # ""
    /\ \A i \in 1..Len(messages) :
            messages[i].message_id # webhook_log'.last.message_id

\* C12: a callback, on either endpoint, whose message id matches no stored
\* message is answered with one of the handler's bodies and leaves every
\* message row and the campaign's counters and status as they were.
C12_UnknownIdChangesNothing ==
    [][UnknownIdCallback =>
            /\ UNCHANGED <<messages, d_campaign>>
            /\ webhook_log'.response \in WebhookReplies]_vars

\* A callback for an unknown id was served while a provider id is stored
\* and a campaign with messages exists.
C12_Witness ==
    /\ webhook_log.run > 0
    /\ webhook_log.last.message_id = "SM9"
    /\ webhook_log.last.status = "failed"
    /\ \E i \in 1..Len(messages) : messages[i].message_id = "SM1"
    /\ d_campaign # NoRow
    /\ campaign_total(messages) > 0
    /\ Len(messages) < MaxMessages

\* The internal status each provider status stands for.
expected_status(status) ==
    CASE status = "delivered" -> "delivered"
      [] status \in {"failed", "undelivered"} -> "failed"
      [] OTHER -> "pending"

\* C13: after a delivery callback for a stored message has been processed,
\* the message's status is the internal status of the provider status:
\* delivered for 'delivered', failed for 'failed', pending for 'queued'.
C13_StatusMapped ==
    \A i \in 1..Len(messages) :
        (/\ webhook_log.run > 0
         /\ webhook_log.last.endpoint = "delivery-report"
         /\ webhook_log.last.status # ""
         /\ webhook_log.last.message_id # ""
         /\ webhook_log.last.message_id = messages[i].message_id)
            => messages[i].status = expected_status(webhook_log.last.status)

\* ------------------------------------------------------------------------
\* A/B analysis: claims
\* ------------------------------------------------------------------------
\* A step that serves an analysis request.
AnalyzeStep == analysis' # NoAnalysis /\ analysis'.tick # analysis.tick

\* The last request served was an analysis of the test as it is now.
Analysed == analysis # NoAnalysis /\ ab_test # NoTest

\* C14: an analysis of a test with no recipients in a variant returns the
\* error "Insufficient data for analysis", adds no result and leaves the
\* row, with its stored significance and winner, unchanged.
C14_NoRecipientsRejected ==
    [][(/\ AnalyzeStep
        /\ ab_test # NoTest
        /\ (ab_test.variant_a_recipients = 0 \/ ab_test.variant_b_recipients = 0))
            => /\ ~analysis'.success
               /\ analysis'.error = "Insufficient data for analysis"
               /\ ab_results' = ab_results
               /\ ab_test' = ab_test]_vars

\* A running test with recipients and opens in variant B only was analysed.
C14_Witness ==
    /\ Analysed
    /\ analysis.error = "Insufficient data for analysis"
    /\ ab_test.status = "running"
    /\ ab_test.variant_a_recipients = 0
    /\ ab_test.variant_b_recipients > 0
    /\ ab_test.variant_b_opened > 0

\* Counters with a recipient in each variant and no more opens than
\* recipients.
InRange(t) ==
    /\ t.variant_a_recipients >= 1
    /\ t.variant_b_recipients >= 1
    /\ t.variant_a_opened <= t.variant_a_recipients
    /\ t.variant_b_opened <= t.variant_b_recipients

\* B if significant and rate_B > rate_A, A if significant and
\* rate_A > rate_B, inconclusive otherwise.
expected_winner(t) ==
    LET rate_a == rate(t.variant_a_opened, t.variant_a_recipients)
        rate_b == rate(t.variant_b_opened, t.variant_b_recipients)
        significant == is_significant(z_squared(t))
    IN  IF significant /\ float_gt(rate_b, rate_a) THEN "B"
        ELSE IF significant /\ float_gt(rate_a, rate_b) THEN "A"
        ELSE "inconclusive"

swapped(t) ==
    [t EXCEPT !.variant_a_recipients = t.variant_b_recipients,
              !.variant_b_recipients = t.variant_a_recipients,
              !.variant_a_opened = t.variant_b_opened,
              !.variant_b_opened = t.variant_a_opened]

swapped_winner(w) == IF w = "A" THEN "B" ELSE IF w = "B" THEN "A" ELSE w

\* C17: analysing the row with the variants' data exchanged fails exactly
\* when analysing the row fails, and otherwise gives the exchanged winner,
\* the same significance, the same p-value and an effect size of the same
\* magnitude (the same two rates).
C17_SwapSymmetry ==
    ab_test # NoTest =>
        LET out == analysis_of(ab_test)
            other == analysis_of(swapped(ab_test))
        IN  /\ other.success = out.success
            /\ other.error = out.error
            /\ other.winner = swapped_winner(out.winner)
            /\ other.is_significant = out.is_significant
            /\ other.p_value = out.p_value
            /\ other.improvement_percentage = out.improvement_percentage
            /\ {other.rate_a, other.rate_b} = {out.rate_a, out.rate_b}

\* A test with variants of different sizes was analysed and A won.
C17_Witness ==
    /\ Analysed
    /\ analysis.success
    /\ analysis.winner = "A"
    /\ analysis.is_significant
    /\ ab_test.variant_a_recipients # ab_test.variant_b_recipients

\* C18: a split of one half over 200 contacts gives each variant 100
\* recipients, and the analysis of 20 opens of 100 against 35 opens of 100
\* reports winner B, a significant difference and an
\* improvement_percentage equal to 75.0.
C18_WorkedScenario ==
    /\ \A num \in SplitNums :
            2 * num = SplitDen =>
                /\ variant_a_len(200, num) = 100
                /\ 200 - variant_a_len(200, num) = 100
    /\ (/\ Analysed
        /\ ab_test.variant_a_recipients = 100
        /\ ab_test.variant_b_recipients = 100
        /\ ab_test.variant_a_opened = 20
        /\ ab_test.variant_b_opened = 35)
            => /\ analysis.success
               /\ analysis.winner = "B"
               /\ analysis.is_significant
               /\ analysis.improvement_percentage = int_to_float(75)

\* C19: a successful analysis appends exactly one result after the stored
\* ones, and no other step but the deletion of the test changes the stored
\* results.
C19_ResultsAccumulate ==
    [][/\ (AnalyzeStep /\ analysis'.success)
            => ab_results' =
                    Append(ab_results, [winner_variant |-> analysis'.winner])
       /\ (~(AnalyzeStep /\ analysis'.success) /\ ab_test' # NoTest)
            => ab_results' = ab_results]_vars

\* Two analyses of the test, made on different data, are stored.
C19_Witness ==
    /\ Analysed
    /\ analysis.success
    /\ Len(ab_results) = 2
    /\ ab_results[1].winner_variant # ab_results[2].winner_variant

\* C20: while a test is running none of its counters gets smaller.
C20_CountersMonotonic ==
    [][(/\ ab_test # NoTest
        /\ ab_test' # NoTest
        /\ ab_test.status = "running"
        /\ ab_test'.status = "running")
            => /\ ab_test'.variant_a_recipients >= ab_test.variant_a_recipients
               /\ ab_test'.variant_b_recipients >= ab_test.variant_b_recipients
               /\ ab_test'.variant_a_opened >= ab_test.variant_a_opened
               /\ ab_test'.variant_b_opened >= ab_test.variant_b_opened]_vars

\* C21: in every reachable state each variant's delivered count is at most
\* its recipient count, whatever metric updates have been applied.
C21_DeliveredWithinRecipients ==
    ab_test # NoTest =>
        /\ ab_test.variant_a_delivered <= ab_test.variant_a_recipients
        /\ ab_test.variant_b_delivered <= ab_test.variant_b_recipients

\* C22: a start request that commits and returns success leaves the test
\* running with started_at recorded and has handed the bulk sender one
\* message for every contact it assigned, each with a dispatch result.
C22_StartDispatchesToRecipients ==
    [][\A r \in Requests :
        (pc[r] = "commit" /\ pc'[r] = "done" /\ resp'.result = "started") =>
            /\ campaign'.status = "running"
            /\ campaign'.started_at
            /\ Len(bulk'.messages) = Cardinality(sess[r].contacts)
            /\ Len(bulk'.results) = Cardinality(sess[r].contacts)]_vars

\* C23: when the 'delivered' callback for the one pending message of a
\* campaign is served while the task is still sending, and the task then
\* ends with the message accepted by the provider, the message is recorded
\* as delivered and counted in the campaign's delivered counter.
C23_EarlyCallbackNotLost ==
    [][(/\ task.pc = "sending"
        /\ task'.pc = "idle"
        /\ Cardinality(task.pending) = 1
        /\ provider_accepted'
        /\ webhook_log.run > 0
        /\ webhook_log.last = [endpoint |-> "delivery-report",
                               message_id |-> "SM1", status |-> "delivered"])
       => /\ \A i \in task.pending : messages'[i].status = "delivered"
          /\ d_campaign'.delivered_count = 1]_vars

\* What a caller can branch on in a result: the keys other than the free
\* text of the error.
failure_kind(result) == [success |-> result.success, status |-> result.status]

\* C24: when the provider was unreachable for every message of a call, each
\* result send_bulk_sms returns has a failure kind other than the one of a
\* message the provider refused.
C24_OutageDistinguishable ==
    (/\ bulk.pc = "done"
     /\ Len(bulk.messages) > 0
     /\ \A k \in 1..Len(bulk.messages) : bulk.messages[k] = "raises")
        => \A k \in 1..Len(bulk.results) :
                failure_kind(bulk.results[k]) # failure_kind(send_sms("rejected"))

\* C25: when the campaign task ends, there is a set of accepted messages
\* among those that were pending when it started (all of them when the
\* provider took every message) such that exactly the accepted ones are
\* sent, the others failed, and delivered_count and failed_count are the
\* numbers of the two.
C25_StatusesFollowOutcomes ==
    [][(task.pc = "sending" /\ task'.pc = "idle") =>
        \E acc \in SUBSET task.pending :
            /\ provider_accepted' <=> (acc = task.pending)
            /\ \A i \in task.pending :
                    messages'[i].status = IF i \in acc THEN "sent" ELSE "failed"
            /\ d_campaign'.delivered_count = Cardinality(acc)
            /\ d_campaign'.failed_count = Cardinality(task.pending \ acc)]_vars

\* C26: when the campaign task ends with every message accepted, each of
\* them carries the provider's id, and a delivery callback with that id
\* finds a message and updates it.
C26_AcceptedCarriesProviderId ==
    [][(task.pc = "sending" /\ task'.pc = "idle" /\ provider_accepted') =>
        /\ \A i \in task.pending : messages'[i].message_id \in ProviderIds
        /\ \A sid \in ProviderIds :
              delivery_report([messages |-> messages', campaign |-> d_campaign'],
                              [endpoint |-> "delivery-report", message_id |-> sid,
                               status |-> "delivered"]).response
                = "Status updated"]_vars

\* C28: whenever an invocation of process_campaign_messages that found
\* pending messages ends, whatever the dispatch outcomes, the campaign is
\* sent.
C28_TaskLeavesCampaignSent ==
    [][(task.pc = "sending" /\ task'.pc = "idle") =>
            d_campaign'.status = "sent"]_vars

\* C30: in every reachable state in which the campaign is sent, none of its
\* messages is pending and delivered_count + failed_count is the number of
\* its messages.
C30_SentMeansNonePending ==
    (d_campaign # NoRow /\ d_campaign.status = "sent") =>
        /\ campaign_count(messages, "pending") = 0
        /\ d_campaign.delivered_count + d_campaign.failed_count
                = campaign_total(messages)

\* C29: an analysis request of a user who does not own the test is answered
\* "Campaign not found", adds no result and leaves the row, with its status,
\* counters, stored significance and winner, unchanged.
C29_ForeignAnalysisRejected ==
    [][(AnalyzeStep /\ requester' = "other" /\ ab_test # NoTest) =>
            /\ ~analysis'.success
            /\ analysis'.error = "Campaign not found"
            /\ ab_results' = ab_results
            /\ ab_test' = ab_test]_vars

\* The batch a message belongs to: consecutive runs of BatchSize messages in
\* submission order.
batch_of(k) == (k - 1) \div BatchSize

\* C27: within one send_bulk_sms invocation a provider call has begun only
\* for messages of batches up to the current one, and when a call of a later
\* batch has begun every call of every earlier batch has completed.
C27_BatchesInOrder ==
    /\ bulk.i % BatchSize = 0
    /\ \A k \in DOMAIN calls :
            calls[k] # "none" => batch_of(k) <= bulk.i \div BatchSize
    /\ \A j \in DOMAIN calls, k \in DOMAIN calls :
            (batch_of(j) < batch_of(k) /\ calls[k] # "none") => calls[j] = "done"

\* A call of the second batch is under way after the first batch, whose
\* sends ended with an exception, was gathered.
C27_Witness ==
    /\ Len(bulk.messages) > BatchSize
    /\ bulk.messages[1] = "raises"
    /\ bulk.i = BatchSize
    /\ Len(bulk.results) = BatchSize
    /\ calls[BatchSize + 1] = "running"

====
